---- MODULE Spec2Model ----
(***************************************************************************)
(* Logging configuration of TARDIS-em: tardis_em/utils/logging_config.py   *)
(* (setup_logger, get_logger, set_log_level, configure_tardis_logging) and *)
(* the package initialiser tardis_em/__init__.py, over the part of the     *)
(* Python logging registry, the file system and the clock they touch.      *)
(***************************************************************************)
EXTENDS Integers, Sequences, FiniteSets, TLC

(* ------------------------------ bounds --------------------------------- *)
\* steps taken after the package import: calls of the module's functions
\* and removals of the log directory
MaxCalls == 2
\* the clock reads 0..MaxTime ticks
MaxTime == 2
\* clock ticks per second: strftime("%Y%m%d_%H%M%S") has one-second resolution
TicksPerSecond == 2

(* ------------------------- logging levels ------------------------------ *)
NOTSET == 0
DEBUG == 10
INFO == 20
WARNING == 30
Levels == {NOTSET, DEBUG, WARNING}
\* levels of the records client code logs
RecordLevels == {DEBUG, WARNING}

(* --------------------------- logger names ------------------------------ *)
\* setup_logger(name=None) configures the root logger
RootName == "root"
TardisName == "tardis_em"
ChildName == "tardis_em.utils"
Names == {RootName, TardisName, ChildName}
\* the names client code configures and logs on
ClientNames == {TardisName, ChildName}
NoParent == "none"

\* the dotted-name hierarchy of logging.getLogger
Parent(n) ==
  IF n = ChildName THEN TardisName
  ELSE IF n = TardisName THEN RootName
  ELSE NoParent

\* a logger as logging.getLogger creates it
DefaultLogger(n) ==
  [level |-> IF n = RootName THEN WARNING ELSE NOTSET,
   propagate |-> TRUE,
   handlers |-> <<>>]

(* ------------------------------ paths ---------------------------------- *)
HomeTardisDir == "~/.tardis_em"
log_dir == "~/.tardis_em/logs"
UserDir == "."
NoStamp == <<>>
NoLogFile == [dir |-> "", prefix |-> "", stamp |-> NoStamp, suffix |-> ""]
UserLogFile == [dir |-> UserDir, prefix |-> "run", stamp |-> NoStamp, suffix |-> ".log"]
StdoutPath == [dir |-> "", prefix |-> "<stdout>", stamp |-> NoStamp, suffix |-> ""]
StderrPath == [dir |-> "", prefix |-> "<stderr>", stamp |-> NoStamp, suffix |-> ""]
LogFileArgs == {NoLogFile, UserLogFile}

\* datetime.now().strftime("%Y%m%d_%H%M%S"): the clock truncated to seconds
timestamp(t) == <<t \div TicksPerSecond>>

\* a name stamped with the raw clock instead of the formatted second
DefaultLogFileRawClock(t) ==
  [dir |-> log_dir, prefix |-> "tardis_", stamp |-> <<t>>, suffix |-> ".log"]

\* log_dir / f"tardis_{timestamp}.log"
DefaultLogFile(t) ==
  [dir |-> log_dir, prefix |-> "tardis_", stamp |-> timestamp(t), suffix |-> ".log"]

\* log_dir.mkdir(parents=True, exist_ok=True)
Mkdir(ds) == ds \cup {HomeTardisDir, log_dir}

\* the file the handler is built on: the default one when no path is given
ResolveLogFile(log_file, t) ==
  IF log_file = NoLogFile THEN DefaultLogFile(t) ELSE log_file

(* ----------------------------- handlers -------------------------------- *)
\* logging.StreamHandler(sys.stdout) with setLevel(level)
console_handler(id, level) ==
  [id |-> id, kind |-> "console", level |-> level, path |-> StdoutPath]

\* a file handler left at the level a new handler has: setLevel forgotten
file_handler_no_level(id, level, path) ==
  [id |-> id, kind |-> "file", level |-> NOTSET, path |-> path]

\* logging.FileHandler(log_file) with setLevel(level)
file_handler(id, level, path) ==
  [id |-> id, kind |-> "file", level |-> level, path |-> path]

\* logging.lastResort: a stderr handler at WARNING used when no handler is found
LastResort ==
  [id |-> 0, kind |-> "lastResort", level |-> WARNING, path |-> StderrPath]

\* the handlers of earlier calls left in place
KeepHandlers(hs) == hs

\* logger.handlers.clear()
ClearHandlers(hs) == <<>>

\* detached handlers closed on reconfiguration
CloseDetachedHandlers(cl, hs) ==
  cl \cup {hs[i].id : i \in {j \in 1..Len(hs) : hs[j].kind = "file"}}

\* the streams explicitly closed once a logger's handlers are detached: the
\* code detaches and closes nothing
CloseDetached(cl, hs) == cl

\* propagation left at the default of a new logger
PropagateDefault == TRUE

\* logger.propagate = False
SetupPropagate == FALSE

\* handler.setLevel(level) on every handler of a list
SetHandlerLevels(hs, level) ==
  [i \in 1..Len(hs) |-> [hs[i] EXCEPT !.level = level]]

FailModes == {"none", "mkdir", "open"}

\* the failures the platform can answer a call with: mkdir can fail only when
\* it has a directory to create, open only when a file handler is built
PossibleFails(ds, log_file, file_output) ==
  {"none"}
    \cup (IF file_output THEN {"open"} ELSE {})
    \cup (IF file_output /\ log_file = NoLogFile /\ log_dir \notin ds
          THEN {"mkdir"} ELSE {})

VARIABLES
  pc,          \* position of the package import (tardis_em/__init__.py)
  env,         \* os.environ["PYTORCH_ENABLE_MPS_FALLBACK"]
  registry,    \* names of the loggers logging.getLogger has created
  loggers,     \* name -> [level, propagate, handlers]
  dirs,        \* directories that exist under the home directory
  files,       \* log files that exist
  now,         \* the last reading of datetime.now(), in ticks
  nextId,      \* identity of the next handler object constructed
  opened,      \* ids of the file handlers whose stream was opened
  closed,      \* ids of the handlers explicitly closed
  stdout,      \* records written to standard output, in order
  fileLog,     \* records written to log files, in order
  nCalls,      \* steps taken after the import
  nFileOk,     \* setup_logger calls with file_output that returned
  lastSetup,   \* name -> the last setup_logger call on it and its outcome
  lastOp       \* the last call: its arguments, outcome and what it saw

vars == <<pc, env, registry, loggers, dirs, files, now, nextId, opened, closed,
          stdout, fileLog, nCalls, nFileOk, lastSetup, lastOp>>

(* ---------------------- record dispatch (logging) ---------------------- *)
RECURSIVE EffectiveLevel(_, _)
\* Logger.getEffectiveLevel: the first level set on the way to the root
EffectiveLevel(lg, n) ==
  IF lg[n].level # NOTSET THEN lg[n].level
  ELSE IF Parent(n) = NoParent THEN NOTSET
  ELSE EffectiveLevel(lg, Parent(n))

\* Logger.isEnabledFor
IsEnabledFor(lg, n, lvl) == lvl >= EffectiveLevel(lg, n)

RECURSIVE ChainHandlers(_, _)
\* the handlers Logger.callHandlers visits: the logger's own, then its
\* ancestors' for as long as propagate is set
ChainHandlers(lg, n) ==
  LET own == [i \in 1..Len(lg[n].handlers) |->
                [owner |-> n, handler |-> lg[n].handlers[i]]]
  IN IF lg[n].propagate /\ Parent(n) # NoParent
     THEN own \o ChainHandlers(lg, Parent(n))
     ELSE own

\* Logger.callHandlers: every visited handler whose level admits the record
\* handles it; with no handler found at all, lastResort does
CallHandlers(lg, n, lvl) ==
  LET chain == ChainHandlers(lg, n)
  IN IF Len(chain) = 0
     THEN IF lvl >= LastResort.level
          THEN <<[owner |-> NoParent, handler |-> LastResort]>>
          ELSE <<>>
     ELSE SelectSeq(chain, LAMBDA d : lvl >= d.handler.level)

\* logger.log(lvl, msg): the handlers that emit the record, in order
Emit(lg, n, lvl) ==
  IF IsEnabledFor(lg, n, lvl) THEN CallHandlers(lg, n, lvl) ELSE <<>>

Line(n, lvl, msg, d) ==
  [name |-> n, level |-> lvl, msg |-> msg, path |-> d.handler.path]

ConsoleLines(ds, n, lvl, msg) ==
  LET c == SelectSeq(ds, LAMBDA d : d.handler.kind = "console")
  IN [i \in 1..Len(c) |-> Line(n, lvl, msg, c[i])]

FileLines(ds, n, lvl, msg) ==
  LET c == SelectSeq(ds, LAMBDA d : d.handler.kind = "file")
  IN [i \in 1..Len(c) |-> Line(n, lvl, msg, c[i])]


(* ----------------------------- operations ------------------------------ *)
\* the exception caught and the call carried on
SetupResultSwallowed(raised) == "ok"

\* an exception of mkdir or FileHandler is not caught: the call raises
SetupResult(raised) == IF raised THEN "raised" ELSE "ok"

\* setup_logger(name, level, log_file, console_output, file_output) run on the
\* registry lg, directories ds, files fs, opened/closed streams op/cl, with
\* id the next handler identity and t what datetime.now() reads; fail is the
\* file-system failure the platform answers with, if any
setup_logger_effect(lg, ds, fs, op, cl, id, t, name, level, log_file, console_output, file_output, fail) ==
  LET old == lg[name].handlers
      console == IF console_output THEN <<console_handler(id, level)>> ELSE <<>>
      idF == id + Len(console)
      base == ClearHandlers(old) \o console
      defaultDir == file_output /\ log_file = NoLogFile
      mkdirRaises == defaultDir /\ fail = "mkdir" /\ log_dir \notin ds
      path == ResolveLogFile(log_file, t)
      openRaises == file_output /\ ~mkdirRaises /\ fail = "open"
      fileOk == file_output /\ ~mkdirRaises /\ ~openRaises
      hs == IF fileOk THEN base \o <<file_handler(idF, level, path)>> ELSE base
  IN [loggers |-> [lg EXCEPT ![name] = [level |-> level,
                                        propagate |-> SetupPropagate,
                                        handlers |-> hs]],
      dirs |-> IF defaultDir /\ ~mkdirRaises THEN Mkdir(ds) ELSE ds,
      files |-> IF fileOk THEN fs \cup {path} ELSE fs,
      opened |-> IF fileOk THEN op \cup {idF} ELSE op,
      closed |-> CloseDetached(cl, old),
      nextId |-> IF fileOk THEN idF + 1 ELSE idF,
      readClock |-> defaultDir /\ ~mkdirRaises,
      failure |-> IF mkdirRaises THEN "mkdir"
                  ELSE IF openRaises THEN "open" ELSE "none",
      result |-> SetupResult(mkdirRaises \/ openRaises)]

\* set_log_level(level): the "tardis_em" logger and the handlers attached to it
SetLevelOf(lg, level) ==
  [lg EXCEPT ![TardisName].level = level,
             ![TardisName].handlers = SetHandlerLevels(@, level)]

InitializedMsg == "TARDIS-em logging initialized"
ImportedMsg == "TARDIS initialized"
UserMsg == "record"

\* os.environ.setdefault: a value already present is kept
SetEnvFlagIfUnset(old) == IF old = "unset" THEN "1" ELSE old

\* the value the import stores in the environment, whatever was there
SetEnvFlag(old) == "1"

CallRecord(op, name, level, log_file, console_output, file_output, result, failure, ds) ==
  [op |-> op, name |-> name, level |-> level, log_file |-> log_file,
   console_output |-> console_output, file_output |-> file_output,
   result |-> result, failure |-> failure, firstId |-> nextId,
   dirsBefore |-> dirs, filesBefore |-> files, deliveries |-> ds]

\* a call that takes no configuration arguments and cannot fail
PlainCall(op, name, level, ds) ==
  CallRecord(op, name, level, NoLogFile, FALSE, FALSE, "ok", "none", ds)

NoCall == PlainCall("none", NoParent, NOTSET, <<>>)

Init ==
  /\ pc = "start"
  /\ env \in {"unset", "0", "1"}
  /\ registry = {RootName}
  /\ loggers = [n \in Names |-> DefaultLogger(n)]
  /\ dirs \in {{}, {HomeTardisDir}, {HomeTardisDir, log_dir}}
  /\ files = {}
  /\ now = 0
  /\ nextId = 1
  /\ opened = {}
  /\ closed = {}
  /\ stdout = <<>>
  /\ fileLog = <<>>
  /\ nCalls = 0
  /\ nFileOk = 0
  /\ lastSetup = [n \in Names |->
                    [status |-> "never", console_output |-> FALSE,
                     file_output |-> FALSE]]
  /\ lastOp = [NoCall EXCEPT !.firstId = 1, !.dirsBefore = {}]

\* what datetime.now() can read during a call: the clock does not run
\* backwards, and only the default log file name reads it
ClockReadings(log_file, file_output) ==
  IF file_output /\ log_file = NoLogFile THEN now..MaxTime ELSE {now}

\* the state a setup_logger call leaves, shared by every caller of it
ApplySetup(r, name, console_output, file_output, t) ==
  /\ registry' = registry \cup {name}
  /\ now' = IF r.readClock THEN t ELSE now
  /\ loggers' = r.loggers
  /\ dirs' = r.dirs
  /\ files' = r.files
  /\ opened' = r.opened
  /\ closed' = r.closed
  /\ nextId' = r.nextId
  /\ lastSetup' = [lastSetup EXCEPT ![name] =
                      [status |-> r.result, console_output |-> console_output,
                       file_output |-> file_output]]
  /\ nFileOk' = IF file_output /\ r.result = "ok" THEN nFileOk + 1 ELSE nFileOk

\* configure_tardis_logging: setup_logger on "tardis_em", then one INFO record
configure_tardis_logging_effect(op, level, log_file, console_output, file_output, fail, t) ==
  LET r == setup_logger_effect(loggers, dirs, files, opened, closed, nextId, t,
                       TardisName, level, log_file, console_output,
                       file_output, fail)
      ds == IF r.result = "ok" THEN Emit(r.loggers, TardisName, INFO) ELSE <<>>
  IN /\ ApplySetup(r, TardisName, console_output, file_output, t)
     /\ stdout' = stdout \o ConsoleLines(ds, TardisName, INFO, InitializedMsg)
     /\ fileLog' = fileLog \o FileLines(ds, TardisName, INFO, InitializedMsg)
     /\ lastOp' = CallRecord(op, TardisName, level, log_file, console_output,
                             file_output, r.result, r.failure, ds)

\* os.environ["PYTORCH_ENABLE_MPS_FALLBACK"] = "1"
ImportSetEnv ==
  /\ pc = "start"
  /\ pc' = "flag_set"
  /\ env' = SetEnvFlag(env)
  /\ UNCHANGED <<registry, loggers, dirs, files, now, nextId, opened, closed,
                 stdout, fileLog, nCalls, nFileOk, lastSetup, lastOp>>

\* configure_tardis_logging(level=logging.INFO) of the package import
ImportConfigure ==
  /\ pc = "flag_set"
  /\ \E fail \in PossibleFails(dirs, NoLogFile, TRUE), t \in ClockReadings(NoLogFile, TRUE) :
       /\ configure_tardis_logging_effect("import_configure", INFO, NoLogFile, TRUE, TRUE, fail, t)
       /\ pc' = IF lastSetup'[TardisName].status = "ok" THEN "configured"
                ELSE "import_failed"
  /\ UNCHANGED <<env, nCalls>>

\* logger = logging.getLogger(__name__); logger.info("TARDIS initialized")
ImportLogInitialized ==
  /\ pc = "configured"
  /\ pc' = "imported"
  /\ LET ds == Emit(loggers, TardisName, INFO)
     IN /\ stdout' = stdout \o ConsoleLines(ds, TardisName, INFO, ImportedMsg)
        /\ fileLog' = fileLog \o FileLines(ds, TardisName, INFO, ImportedMsg)
        /\ lastOp' = PlainCall("import_log", TardisName, INFO, ds)
  /\ UNCHANGED <<env, registry, loggers, dirs, files, now, nextId, opened,
                 closed, nCalls, nFileOk, lastSetup>>

CanCall == pc = "imported" /\ nCalls < MaxCalls

\* setup_logger called by client code
setup_logger ==
  /\ CanCall
  /\ \E name \in ClientNames, level \in Levels, log_file \in LogFileArgs,
        console_output \in BOOLEAN, file_output \in BOOLEAN :
     \E fail \in PossibleFails(dirs, log_file, file_output),
        t \in ClockReadings(log_file, file_output) :
       LET r == setup_logger_effect(loggers, dirs, files, opened, closed, nextId, t,
                            name, level, log_file, console_output, file_output,
                            fail)
       IN /\ ApplySetup(r, name, console_output, file_output, t)
          /\ lastOp' = CallRecord("setup_logger", name, level, log_file,
                                  console_output, file_output, r.result,
                                  r.failure, <<>>)
  /\ nCalls' = nCalls + 1
  /\ UNCHANGED <<pc, env, stdout, fileLog>>

\* configure_tardis_logging called by client code
configure_tardis_logging ==
  /\ CanCall
  /\ \E level \in Levels, log_file \in LogFileArgs,
        console_output \in BOOLEAN, file_output \in BOOLEAN :
     \E fail \in PossibleFails(dirs, log_file, file_output),
        t \in ClockReadings(log_file, file_output) :
       configure_tardis_logging_effect("configure_tardis_logging", level, log_file,
                      console_output, file_output, fail, t)
  /\ nCalls' = nCalls + 1
  /\ UNCHANGED <<pc, env>>

\* set_log_level called by client code
set_log_level ==
  /\ CanCall
  /\ \E level \in Levels :
       /\ loggers' = SetLevelOf(loggers, level)
       /\ lastOp' = PlainCall("set_log_level", TardisName, level, <<>>)
  /\ registry' = registry \cup {TardisName}
  /\ nCalls' = nCalls + 1
  /\ UNCHANGED <<pc, env, dirs, files, now, nextId, opened, closed, stdout,
                 fileLog, nFileOk, lastSetup>>

\* get_logger(name): the logger is created on first use
get_logger ==
  /\ CanCall
  /\ \E name \in ClientNames :
       /\ registry' = registry \cup {name}
       /\ lastOp' = PlainCall("get_logger", name, NOTSET, <<>>)
  /\ nCalls' = nCalls + 1
  /\ UNCHANGED <<pc, env, loggers, dirs, files, now, nextId, opened, closed,
                 stdout, fileLog, nFileOk, lastSetup>>

\* a record logged by client code on a logger it holds
LogRecord ==
  /\ CanCall
  /\ \E name \in registry, lvl \in RecordLevels :
       LET ds == Emit(loggers, name, lvl)
       IN /\ stdout' = stdout \o ConsoleLines(ds, name, lvl, UserMsg)
          /\ fileLog' = fileLog \o FileLines(ds, name, lvl, UserMsg)
          /\ lastOp' = PlainCall("log", name, lvl, ds)
  /\ nCalls' = nCalls + 1
  /\ UNCHANGED <<pc, env, registry, loggers, dirs, files, now, nextId, opened,
                 closed, nFileOk, lastSetup>>

\* the directory tree ~/.tardis_em is removed from outside the program
RemoveLogDir ==
  /\ CanCall
  /\ dirs # {}
  /\ nCalls' = nCalls + 1
  /\ dirs' = {}
  /\ files' = {f \in files : f.dir # log_dir}
  /\ lastOp' = PlainCall("remove_log_dir", NoParent, NOTSET, <<>>)
  /\ UNCHANGED <<pc, env, registry, loggers, now, nextId, opened, closed,
                 stdout, fileLog, nFileOk, lastSetup>>

Next ==
  \/ ImportSetEnv
  \/ ImportConfigure
  \/ ImportLogInitialized
  \/ setup_logger
  \/ configure_tardis_logging
  \/ set_log_level
  \/ get_logger
  \/ LogRecord
  \/ RemoveLogDir

Spec == Init /\ [][Next]_vars

TypeOK ==
  /\ pc \in {"start", "flag_set", "configured", "imported", "import_failed"}
  /\ env \in {"unset", "0", "1"}
  /\ registry \subseteq Names
  /\ now \in 0..MaxTime
  /\ nCalls \in 0..MaxCalls
  /\ closed \subseteq opened


(* ------------------------------- claims -------------------------------- *)
Handlers(n) == loggers[n].handlers

KindCount(n, k) ==
  Cardinality({i \in 1..Len(Handlers(n)) : Handlers(n)[i].kind = k})

FileTargets(n) ==
  LET fh == SelectSeq(Handlers(n), LAMBDA h : h.kind = "file")
  IN [i \in 1..Len(fh) |-> fh[i].path]

B(b) == IF b THEN 1 ELSE 0

IsSetupCall ==
  lastOp.op \in {"setup_logger", "configure_tardis_logging", "import_configure"}

Msgs(lines) == [i \in 1..Len(lines) |-> lines[i].msg]

Writes(k) ==
  Len(SelectSeq(lastOp.deliveries,
                LAMBDA d : d.handler.kind = k /\ d.owner = lastOp.name))

Ancestors(n) ==
  IF n = ChildName THEN {TardisName, RootName}
  ELSE IF n = TardisName THEN {RootName}
  ELSE {}

\* C1 as stated: after any setup_logger / configure_tardis_logging calls on a
\* name, its logger holds at most one console and at most one file handler,
\* and the handler count is (1 if console_output) + (1 if file_output) of the
\* most recent call on that name.
C1_HandlerCountOfLastCall ==
  \A n \in Names :
    lastSetup[n].status # "never" =>
      /\ KindCount(n, "console") <= 1
      /\ KindCount(n, "file") <= 1
      /\ Len(Handlers(n)) =
           B(lastSetup[n].console_output) + B(lastSetup[n].file_output)

\* C1 amended: at most one console and one file handler after any calls; the
\* count is (1 if console_output) + (1 if file_output) of the most recent
\* call when that call returned, and (1 if console_output) when it raised.
C1_HandlerCountOfLastReturnedCall ==
  \A n \in Names :
    lastSetup[n].status # "never" =>
      /\ KindCount(n, "console") <= 1
      /\ KindCount(n, "file") <= 1
      /\ KindCount(n, "console") = B(lastSetup[n].console_output)
      /\ KindCount(n, "file") =
           IF lastSetup[n].status = "ok" THEN B(lastSetup[n].file_output) ELSE 0
      /\ Len(Handlers(n)) = KindCount(n, "console") + KindCount(n, "file")

\* "tardis_em", configured with both outputs by the import, is configured
\* with both outputs again and still holds two handlers
C1_Witness ==
  /\ lastOp.op = "configure_tardis_logging"
  /\ lastOp.result = "ok"
  /\ lastOp.console_output /\ lastOp.file_output
  /\ Len(Handlers(TardisName)) = 2

\* C2: a call with console_output=False and file_output=False leaves the
\* logger without handlers, whatever was attached before, and creates
\* neither the log directory nor a log file.
C2_DisabledOutputsLeaveNothing ==
  /\ \A n \in Names :
       (/\ lastSetup[n].status # "never"
        /\ ~lastSetup[n].console_output
        /\ ~lastSetup[n].file_output) => Handlers(n) = <<>>
  /\ (IsSetupCall /\ ~lastOp.console_output /\ ~lastOp.file_output) =>
       /\ Handlers(lastOp.name) = <<>>
       /\ dirs = lastOp.dirsBefore
       /\ files = lastOp.filesBefore
       /\ nextId = lastOp.firstId

\* "tardis_em" had two handlers from the import, the log directory is gone,
\* and the logger is configured with both outputs off
C2_Witness ==
  /\ lastOp.op = "configure_tardis_logging"
  /\ ~lastOp.console_output /\ ~lastOp.file_output
  /\ lastOp.firstId >= 3
  /\ dirs = {}

\* C3: after a setup_logger call that returned, the logger's level, the level
\* of each attached handler, the presence of console and file handlers and
\* the file handler's path are those of the call's arguments, and no handler
\* of an earlier call is attached.
C3_LastConfigurationWins ==
  (IsSetupCall /\ lastOp.result = "ok") =>
    LET hs == Handlers(lastOp.name)
    IN /\ loggers[lastOp.name].level = lastOp.level
       /\ \A i \in 1..Len(hs) :
            /\ hs[i].level = lastOp.level
            /\ hs[i].id >= lastOp.firstId
       /\ KindCount(lastOp.name, "console") = B(lastOp.console_output)
       /\ KindCount(lastOp.name, "file") = B(lastOp.file_output)
       /\ Len(hs) = B(lastOp.console_output) + B(lastOp.file_output)
       /\ lastOp.log_file # NoLogFile =>
            \A i \in 1..Len(FileTargets(lastOp.name)) :
              FileTargets(lastOp.name)[i] = lastOp.log_file
       /\ lastOp.log_file = NoLogFile =>
            \A i \in 1..Len(FileTargets(lastOp.name)) :
              /\ FileTargets(lastOp.name)[i].dir = log_dir
              /\ FileTargets(lastOp.name)[i].prefix = "tardis_"

\* "tardis_em", at INFO with console and default file from the import, is
\* set up at DEBUG with a file handler on a given path only
C3_Witness ==
  /\ lastOp.op = "setup_logger"
  /\ lastOp.name = TardisName
  /\ lastOp.result = "ok"
  /\ lastOp.level = DEBUG
  /\ ~lastOp.console_output /\ lastOp.file_output
  /\ lastOp.log_file = UserLogFile

C5_AllTardisLoggersAtLevel ==
  (lastOp.op = "set_log_level" /\ lastOp.level # NOTSET) =>
    /\ EffectiveLevel(loggers, TardisName) = lastOp.level
    /\ \A i \in 1..Len(Handlers(TardisName)) :
         Handlers(TardisName)[i].level = lastOp.level
    /\ EffectiveLevel(loggers, ChildName) = lastOp.level

\* C6: the import sets PYTORCH_ENABLE_MPS_FALLBACK to "1" whatever it held,
\* before logging is configured; then configures "tardis_em" at INFO and
\* emits "TARDIS-em logging initialized"; then emits "TARDIS initialized".
C6_ImportOrder ==
  /\ pc # "start" => env = "1"
  /\ pc \in {"start", "flag_set"} =>
       /\ lastSetup[TardisName].status = "never"
       /\ loggers[TardisName] = DefaultLogger(TardisName)
       /\ stdout = <<>> /\ fileLog = <<>>
  /\ pc = "configured" =>
       /\ lastSetup[TardisName].status = "ok"
       /\ loggers[TardisName].level = INFO
       /\ Msgs(stdout) = <<InitializedMsg>>
       /\ Msgs(fileLog) = <<InitializedMsg>>
  /\ pc = "imported" =>
       /\ Len(stdout) >= 2 /\ Len(fileLog) >= 2
       /\ SubSeq(Msgs(stdout), 1, 2) = <<InitializedMsg, ImportedMsg>>
       /\ SubSeq(Msgs(fileLog), 1, 2) = <<InitializedMsg, ImportedMsg>>
  /\ pc = "import_failed" => stdout = <<>> /\ fileLog = <<>>

\* the import has run to its end and nothing else has
C6_Witness ==
  /\ pc = "imported"
  /\ nCalls = 0
  /\ Len(stdout) = 2

\* C7 as stated: a record logged on a configured logger at or above the
\* configured level is written once to stdout when a console handler is
\* attached and once to the file when a file handler is; one below it is
\* written to neither; none reaches a handler of an ancestor logger.
C7_RecordWrittenOnceAtConfiguredLevel ==
  (lastOp.op \in {"log", "import_log"} /\ lastSetup[lastOp.name].status = "ok") =>
    /\ lastOp.level >= loggers[lastOp.name].level =>
         /\ Writes("console") = KindCount(lastOp.name, "console")
         /\ Writes("file") = KindCount(lastOp.name, "file")
         /\ Writes("console") <= 1 /\ Writes("file") <= 1
    /\ lastOp.level < loggers[lastOp.name].level =>
         Writes("console") = 0 /\ Writes("file") = 0
    /\ \A i \in 1..Len(lastOp.deliveries) :
         lastOp.deliveries[i].owner \notin Ancestors(lastOp.name)

\* C7 amended: the threshold is the logger's effective level, which is the
\* configured level unless that is NOTSET, and then the level of the nearest
\* ancestor that has one.
C7_RecordWrittenOnceAtEffectiveLevel ==
  (lastOp.op \in {"log", "import_log"} /\ lastSetup[lastOp.name].status = "ok") =>
    /\ lastOp.level >= EffectiveLevel(loggers, lastOp.name) =>
         /\ Writes("console") = KindCount(lastOp.name, "console")
         /\ Writes("file") = KindCount(lastOp.name, "file")
         /\ Writes("console") <= 1 /\ Writes("file") <= 1
    /\ lastOp.level < EffectiveLevel(loggers, lastOp.name) =>
         Writes("console") = 0 /\ Writes("file") = 0
    /\ \A i \in 1..Len(lastOp.deliveries) :
         lastOp.deliveries[i].owner \notin Ancestors(lastOp.name)

\* a record is logged on "tardis_em.utils", configured with console and file,
\* while its parent "tardis_em" has handlers of its own, and is written twice
C7_Witness ==
  /\ lastOp.op = "log"
  /\ lastOp.name = ChildName
  /\ lastSetup[ChildName].status = "ok"
  /\ Handlers(TardisName) # <<>>
  /\ Writes("console") = 1 /\ Writes("file") = 1

\* C8: a file-system failure in mkdir or in building the file handler is not
\* caught: the call raises, returns no logger, and configure_tardis_logging
\* emits no "TARDIS-em logging initialized" record.
C8_FailurePropagates ==
  (IsSetupCall /\ lastOp.failure # "none") =>
    /\ lastOp.result = "raised"
    /\ lastSetup[lastOp.name].status = "raised"
    /\ lastOp.deliveries = <<>>
    /\ lastOp.op = "import_configure" => pc = "import_failed" /\ stdout = <<>>

\* mkdir fails inside configure_tardis_logging called with console output on
C8_Witness ==
  /\ lastOp.op = "configure_tardis_logging"
  /\ lastOp.failure = "mkdir"
  /\ lastOp.console_output

\* C9: a setup_logger call that raised has already overwritten the level,
\* switched propagate off and removed the earlier handlers: the logger holds
\* the new console handler alone (if console_output) or nothing.
C9_FailedCallLeavesPartialConfiguration ==
  (IsSetupCall /\ lastOp.result = "raised") =>
    LET hs == Handlers(lastOp.name)
    IN /\ loggers[lastOp.name].level = lastOp.level
       /\ loggers[lastOp.name].propagate = FALSE
       /\ \A i \in 1..Len(hs) : hs[i].id >= lastOp.firstId
       /\ hs = IF lastOp.console_output
               THEN <<[id |-> lastOp.firstId, kind |-> "console",
                       level |-> lastOp.level, path |-> StdoutPath]>>
               ELSE <<>>

\* "tardis_em", at INFO with two handlers from the import, is set up at DEBUG
\* with console and file and the file handler cannot be opened
C9_Witness ==
  /\ lastOp.op = "setup_logger"
  /\ lastOp.name = TardisName
  /\ lastOp.result = "raised"
  /\ lastOp.failure = "open"
  /\ lastOp.console_output
  /\ lastOp.level = DEBUG

\* C10: no operation closes a handler: the file streams opened and not
\* closed number the setup_logger calls with file_output=True that returned,
\* and at most one of them is attached to a logger.
C10_DetachedStreamsStayOpen ==
  /\ closed = {}
  /\ Cardinality(opened \ closed) = nFileOk
  /\ \A n \in Names : KindCount(n, "file") <= 1
  /\ \A n \in Names : \A i \in 1..Len(Handlers(n)) :
       Handlers(n)[i].kind = "file" => Handlers(n)[i].id \in opened \ closed

\* three file streams were opened on "tardis_em" and one is attached
C10_Witness ==
  /\ nFileOk = 3
  /\ lastSetup[ChildName].status = "never"
  /\ KindCount(TardisName, "file") = 1

====
